---- MODULE Spec2Model ----
(***************************************************************************)
(* Model of rust-companion.                                                *)
(*                                                                         *)
(*   src/src/lib.rs       check_started, launch, bootstrap (the supervisor *)
(*                        and the datagram daemon it starts)               *)
(*   src/src/main.rs      the stream-socket daemon (unlink, bind, accept,  *)
(*                        serve loop)                                      *)
(*   src/examples/sender.rs  the client of the stream-socket daemon        *)
(*                                                                         *)
(* The specifications share the variables below:                           *)
(*   SpecCS    check_started applied to arbitrary PID files                *)
(*   SpecSup   supervisors running bootstrap concurrently (lib.rs)         *)
(*   SpecSock  stream daemons and their clients (main.rs, sender.rs)       *)
(*   SpecServe SpecSock with a single daemon started                       *)
(*   SpecStart SpecSock with clients that connect and send no task         *)
(*   SpecSupSeq   SpecSup with one invocation after the other, taken fairly *)
(*   SpecDg    the serve loop of the datagram daemon (lib.rs launch)       *)
(* Each specification leaves the variables of the others unchanged.        *)
(***************************************************************************)
EXTENDS Integers, Sequences, FiniteSets

VARIABLES
    pidFile,    \* the PID file: [kind, lines]; lines as str::lines() yields them
    procs,      \* the live process table: the set of PIDs of running processes
    csLog,      \* the last check_started call: file before, table, return value
    pc,         \* lib.rs processes: where each is in bootstrap/launch
    lockFile,   \* the lockfile's content (NoPath or the executable's path)
    udpHolder,  \* the process whose UdpSocket is bound to companion_addr(), or 0
    dpc,        \* main.rs daemons: where each is in main
    sockFile,   \* the socket path entry: 0 (absent) or the daemon that bound it
    removed,    \* main.rs: per daemon, what its remove_file found at the path
    cur,        \* main.rs: the connection (client) each daemon is serving, or 0
    backlog,    \* per daemon: connections made and not yet accepted, in order
    cpc,        \* sender.rs clients: where each is in main ("ended": main has
                \* returned or panicked, and the client's sockets are closed)
    conn,       \* per client: the daemon its connection goes to, or 0
    inq,        \* per client: tasks sent on the connection and not yet received
    sent,       \* per client: every task sent, in send order
    served,     \* per client: the tasks the daemon has received from it, in order
    replies,    \* per client: per sent task, the state of its reply channel
    upc,        \* lib.rs serve loop: where the datagram daemon is in launch
    storage,    \* lib.rs line 163: the daemon's HashMap, as a set of <<key, data>>
    netq,       \* datagrams delivered to the daemon's socket and not yet read
    ucur,       \* the datagram recv_from returned last: [src, body]
    ulog        \* per datagram read, in order: its source, body and the replies
                \* sent while handling it, each with its destination

vars == <<pidFile, procs, csLog, pc, lockFile, udpHolder,
          dpc, sockFile, removed, cur, backlog, cpc, conn, inq, sent, served, replies,
          upc, storage, netq, ucur, ulog>>

csVars   == <<pidFile, procs, csLog>>
supVars  == <<pc, lockFile, udpHolder>>
sockVars == <<dpc, sockFile, removed, cur, backlog, cpc, conn, inq, sent,
             served, replies>>
dgVars   == <<upc, storage, netq, ucur, ulog>>

---------------------------------------------------------------------------
(* Bounds of the model.                                                    *)

MaxLines == 2       \* lines of a PID file drawn in SpecCS
MaxLineLen == 2     \* characters of one such line
NSup == 2           \* supervisor processes in SpecSup
NDaemon == 2        \* stream daemons started in SpecSock
NClient == 2        \* clients in SpecSock
MaxTasks == 3       \* tasks the clients of SpecSock send in all
NSrc == 2           \* source addresses that send datagrams in SpecDg
MaxDatagrams == 3   \* datagrams sent to the daemon in SpecDg

---------------------------------------------------------------------------
(* Text: a line is a sequence of one-character strings.                    *)

Digits == <<"0", "1", "2", "3", "4", "5", "6", "7", "8", "9">>

IsDigit(c) == \E i \in 1..10 : Digits[i] = c

DigitVal(c) == (CHOOSE i \in 1..10 : Digits[i] = c) - 1

\* u32::MAX = 4294967295, as its decimal digits.
U32MaxDigits == <<4, 2, 9, 4, 9, 6, 7, 2, 9, 5>>

RECURSIVE StripZeros(_)
StripZeros(s) ==
    IF s # <<>> /\ Head(s) = "0" THEN StripZeros(Tail(s)) ELSE s

RECURSIVE DigitsLeq(_, _)
\* For digit-value sequences of equal length: a <= b as numbers.
DigitsLeq(a, b) ==
    IF a = <<>> THEN TRUE
    ELSE IF Head(a) < Head(b) THEN TRUE
    ELSE IF Head(a) > Head(b) THEN FALSE
    ELSE DigitsLeq(Tail(a), Tail(b))

FitsU32(ds) ==
    LET z == StripZeros(ds)
    IN  \/ Len(z) < Len(U32MaxDigits)
        \/ /\ Len(z) = Len(U32MaxDigits)
           /\ DigitsLeq([i \in 1..Len(z) |-> DigitVal(z[i])], U32MaxDigits)

RECURSIVE DecVal(_)
DecVal(ds) ==
    IF ds = <<>> THEN 0
    ELSE DecVal(SubSeq(ds, 1, Len(ds) - 1)) * 10 + DigitVal(ds[Len(ds)])

ParseErr == -1

\* str::parse::<u32>: an optional leading "+", then one or more decimal
\* digits, the value at most u32::MAX; anything else is an error.
ParseU32(s) ==
    LET ds == IF s # <<>> /\ Head(s) = "+" THEN Tail(s) ELSE s
    IN  IF ds = <<>> \/ (\E i \in 1..Len(ds) : ~IsDigit(ds[i])) \/ ~FitsU32(ds)
        THEN ParseErr
        ELSE DecVal(ds)

RECURSIVE ToString(_)
\* u32::to_string: decimal, no sign, no leading zeros.
ToString(n) ==
    IF n < 10 THEN <<Digits[n + 1]>>
    ELSE Append(ToString(n \div 10), Digits[(n % 10) + 1])

---------------------------------------------------------------------------
(* check_started (lib.rs 115-148) as a function of the file and the table. *)

NoFile == [kind |-> "missing", lines |-> <<>>]

FileOf(ls) == [kind |-> "ok", lines |-> ls]

\* lines().filter_map(|s| s.parse::<u32>().ok()).collect()
ParsedPids(file) ==
    LET vals == [i \in 1..Len(file.lines) |-> ParseU32(file.lines[i])]
        Ok(v) == v # ParseErr
    IN  SelectSeq(vals, Ok)

\* The loop of lines 127-132: the PIDs found in the process table, in order.
NewPidsFirstOnly(file, table) ==
    LET pids == ParsedPids(file)
    IN  IF pids # <<>> /\ Head(pids) \in table THEN <<Head(pids)>> ELSE <<>>

NewPids(file, table) ==
    LET Live(p) == p \in table
    IN  SelectSeq(ParsedPids(file), Live)

Started(file, table) ==
    file.kind = "ok" /\ NewPids(file, table) # <<>>

CheckStartedRet(file, table) == Started(file, table)

FileAfterKeepsDead(file, table) ==
    IF Started(file, table)
    THEN FileOf([i \in 1..Len(ParsedPids(file)) |->
                    ToString(ParsedPids(file)[i])])
    ELSE file

RECURSIVE CommaJoined(_)
CommaJoined(pids) ==
    IF Len(pids) = 1 THEN ToString(pids[1])
    ELSE ToString(Head(pids)) \o <<",">> \o CommaJoined(Tail(pids))

FileAfterCommaJoined(file, table) ==
    IF Started(file, table)
    THEN FileOf(<<CommaJoined(NewPids(file, table))>>)
    ELSE file

\* Lines 134-143: the file is rewritten only when some PID is live.
FileAfter(file, table) ==
    IF Started(file, table)
    THEN FileOf([i \in 1..Len(NewPids(file, table)) |->
                    ToString(NewPids(file, table)[i])])
    ELSE file

---------------------------------------------------------------------------
(* Values the variables of a specification keep while another one runs.    *)

NoPath == "none"

CsIdle ==
    /\ pidFile = NoFile
    /\ procs = {}
    /\ csLog = [called |-> FALSE, before |-> NoFile, table |-> {}, ret |-> FALSE]

SupIdle ==
    /\ pc = [p \in {} |-> "off"]
    /\ lockFile = NoPath
    /\ udpHolder = 0

NoDatagram == [src |-> 0, body |-> "none"]

DgIdle ==
    /\ upc = "off"
    /\ storage = {}
    /\ netq = <<>>
    /\ ucur = NoDatagram
    /\ ulog = <<>>

SockIdle ==
    /\ dpc = [d \in {} |-> "off"]
    /\ sockFile = 0
    /\ removed = [d \in {} |-> "unset"]
    /\ cur = [d \in {} |-> 0]
    /\ backlog = [d \in {} |-> <<>>]
    /\ cpc = [c \in {} |-> "off"]
    /\ conn = [c \in {} |-> 0]
    /\ inq = [c \in {} |-> <<>>]
    /\ sent = [c \in {} |-> <<>>]
    /\ served = [c \in {} |-> <<>>]
    /\ replies = [c \in {} |-> <<>>]

---------------------------------------------------------------------------
(* SpecCS: check_started on any PID file, against any process table.       *)

CSChars == {"1", "+", "x"}

CSPids == {1, 11}

RECURSIVE SeqsUpTo(_, _)
\* The sequences over S of length at most n.
SeqsUpTo(S, n) ==
    IF n = 0 THEN {<<>>}
    ELSE LET shorter == SeqsUpTo(S, n - 1)
         IN  shorter \cup {Append(q, x) : q \in shorter, x \in S}

CSLines == SeqsUpTo(CSChars, MaxLineLen)

CSFiles ==
    {FileOf(ls) : ls \in SeqsUpTo(CSLines, MaxLines)}
        \cup {NoFile, [kind |-> "unreadable", lines |-> <<>>]}

InitCS ==
    /\ pidFile \in CSFiles
    /\ procs \in SUBSET CSPids
    /\ csLog = [called |-> FALSE, before |-> NoFile, table |-> {}, ret |-> FALSE]
    /\ SupIdle
    /\ SockIdle
    /\ DgIdle

\* One call of check_started(pid_path()).
CheckStartedCall ==
    /\ csLog' = [called |-> TRUE, before |-> pidFile, table |-> procs,
                 ret |-> CheckStartedRet(pidFile, procs)]
    /\ pidFile' = FileAfter(pidFile, procs)
    /\ UNCHANGED <<procs, supVars, sockVars, dgVars>>

\* The process table changes between calls: a process ends or one starts.
TableChange ==
    /\ \E p \in CSPids :
          procs' = IF p \in procs THEN procs \ {p} ELSE procs \cup {p}
    /\ csLog' = [csLog EXCEPT !.called = FALSE]
    /\ UNCHANGED <<pidFile, supVars, sockVars, dgVars>>

NextCS == CheckStartedCall \/ TableChange

SpecCS == InitCS /\ [][NextCS]_vars

---------------------------------------------------------------------------
(* Claims on check_started, checked under SpecCS.                          *)

\* How often PID p is listed in a file: the lines that parse to p.
Listings(file, p) ==
    Cardinality({i \in 1..Len(file.lines) : ParseU32(file.lines[i]) = p})

SomeListedLive(file, table) ==
    file.kind = "ok" /\ \E p \in table : Listings(file, p) > 0

OnlyLiveListed(file, table) ==
    \A i \in 1..Len(file.lines) : ParseU32(file.lines[i]) \in table

C9_TrueIffSomeLive ==
    csLog.called =>
        /\ csLog.ret = SomeListedLive(csLog.before, csLog.table)
        /\ csLog.before.kind # "ok" => csLog.ret = FALSE
        /\ csLog.before.lines = <<>> => csLog.ret = FALSE

\* A call that returned true on a file whose first entry is dead and whose
\* live entry comes later.
C9_Witness ==
    /\ csLog.called
    /\ csLog.ret = TRUE
    /\ Len(csLog.before.lines) >= 2
    /\ ParseU32(csLog.before.lines[1]) # ParseErr
    /\ ParseU32(csLog.before.lines[1]) \notin csLog.table

\* The PIDs a file lists.
ListedIn(file) ==
    {ParseU32(file.lines[i]) : i \in 1..Len(file.lines)} \ {ParseErr}

C19_Step ==
    csLog'.called =>
        /\ \A p \in ListedIn(pidFile') \cup ListedIn(pidFile) :
              /\ Listings(pidFile', p) <= Listings(pidFile, p)
              /\ p \in procs => Listings(pidFile', p) = Listings(pidFile, p)
        /\ csLog.called =>
              /\ csLog'.ret = csLog.ret
              /\ pidFile' = pidFile

\* C19: a check_started call directly after another, the process table
\* unchanged, returns what the first returned and leaves the PID file as the
\* first left it; no call adds a PID to the file or removes a live one.
C19_Idempotent == [][C19_Step]_vars

\* A call found the file as an earlier call had rewritten it, with two live
\* entries, and returned true.
C19_Witness ==
    /\ csLog.called /\ csLog.ret
    /\ csLog.before = pidFile
    /\ Len(pidFile.lines) >= 2

---------------------------------------------------------------------------
(* SpecSup: processes running bootstrap() of lib.rs concurrently.          *)
(* A supervisor is started without arguments; the child it spawns runs the *)
(* same executable with "-d" and so enters launch() from bootstrap(). One  *)
(* more process runs the executable with an argument that is not "-d".     *)

Sups == 1..NSup

\* The process started with another first argument.
Guest == 2 * NSup + 1

LibProcs == 1..Guest

\* The PID of the process that supervisor s spawns.
Child(s) == s + NSup

\* env::args().nth(1)
Arg(p) == IF p \in Sups THEN "none" ELSE IF p = Guest THEN "-x" ELSE "-d"

ExePath == "exe"

InitSup ==
    /\ pidFile = NoFile
    /\ procs = Sups \cup {Guest}
    /\ csLog = [called |-> FALSE, before |-> NoFile, table |-> {}, ret |-> FALSE]
    /\ pc = [p \in LibProcs |-> IF p \in Sups \cup {Guest} THEN "boot" ELSE "off"]
    /\ lockFile = NoPath
    /\ udpHolder = 0
    /\ SockIdle
    /\ DgIdle

\* The sockets of a process are closed when it ends.
ReleasedNever(p) == udpHolder

Released(p) == IF udpHolder = p THEN 0 ELSE udpHolder

\* bootstrap, lines 238-245: the liveness check and the choice it makes.
AfterCheckIgnoresResult(p, started) ==
    IF Arg(p) = "-d" THEN "launch"
    ELSE IF Arg(p) = "none" THEN "spawn"
    ELSE "ret"

AfterCheck(p, started) ==
    IF started THEN "ret"
    ELSE IF Arg(p) = "-d" THEN "launch"
    ELSE IF Arg(p) = "none" THEN "spawn"
    ELSE "ret"

BootCheck(p) ==
    /\ pc[p] = "boot"
    /\ pidFile' = FileAfter(pidFile, procs)
    /\ csLog' = [called |-> TRUE, before |-> pidFile, table |-> procs,
                 ret |-> CheckStartedRet(pidFile, procs)]
    /\ pc' = [pc EXCEPT ![p] = AfterCheck(p, CheckStartedRet(pidFile, procs))]
    /\ UNCHANGED <<procs, lockFile, udpHolder, sockVars, dgVars>>

\* Lines 246-252: the executable is spawned with "-d".
Spawn(p) ==
    /\ pc[p] = "spawn"
    /\ pc[Child(p)] = "off"
    /\ pc' = [pc EXCEPT ![p] = "lock", ![Child(p)] = "boot"]
    /\ procs' = procs \cup {Child(p)}
    /\ UNCHANGED <<pidFile, csLog, lockFile, udpHolder, sockVars, dgVars>>

\* Line 252: spawn()? fails and bootstrap returns the error.
SpawnFailsLocks(p) ==
    /\ pc[p] = "spawn"
    /\ pc' = [pc EXCEPT ![p] = "err"]
    /\ lockFile' = ExePath
    /\ UNCHANGED <<pidFile, procs, csLog, udpHolder, sockVars, dgVars>>

SpawnFails(p) ==
    /\ pc[p] = "spawn"
    /\ pc' = [pc EXCEPT ![p] = "err"]
    /\ UNCHANGED <<pidFile, procs, csLog, lockFile, udpHolder, sockVars, dgVars>>

\* Line 258: current_exe() fails; the error is printed and Ok is returned.
ExeUnknown(p) ==
    /\ pc[p] = "spawn"
    /\ pc' = [pc EXCEPT ![p] = "ret"]
    /\ UNCHANGED <<pidFile, procs, csLog, lockFile, udpHolder, sockVars, dgVars>>

\* Lines 253-256: after the sleep the lockfile is written.
WriteLock(p) ==
    /\ pc[p] = "lock"
    /\ lockFile' = ExePath
    /\ pc' = [pc EXCEPT ![p] = "ret"]
    /\ UNCHANGED <<pidFile, procs, csLog, udpHolder, sockVars, dgVars>>

\* launch, lines 157-159: fs::write(path, pid.to_string()).
PidFileAppended(p) == FileOf(Append(pidFile.lines, ToString(p)))

PidFileWritten(p) == FileOf(<<ToString(p)>>)

LaunchWritePid(p) ==
    /\ pc[p] = "launch"
    /\ pidFile' = PidFileWritten(p)
    /\ pc' = [pc EXCEPT ![p] = "bind"]
    /\ UNCHANGED <<procs, csLog, lockFile, udpHolder, sockVars, dgVars>>

\* launch, line 165: UdpSocket::bind(..).unwrap(); the address is taken
\* while a live process holds a socket bound to it.
BindOkAlways(holder) == TRUE

BindOk(holder) == holder = 0

LaunchBind(p) ==
    /\ pc[p] = "bind"
    /\ IF BindOk(udpHolder)
       THEN /\ udpHolder' = p
            /\ pc' = [pc EXCEPT ![p] = "serve"]
            /\ procs' = procs
       ELSE /\ udpHolder' = udpHolder
            /\ pc' = [pc EXCEPT ![p] = "panicked"]
            /\ procs' = procs \ {p}
    /\ UNCHANGED <<pidFile, csLog, lockFile, sockVars, dgVars>>

\* launch, lines 208-212: Task::Shutdown breaks the loop; launch returns and
\* its socket is dropped.
LaunchShutdown(p) ==
    /\ pc[p] = "serve"
    /\ pc' = [pc EXCEPT ![p] = "ret"]
    /\ udpHolder' = Released(p)
    /\ UNCHANGED <<pidFile, procs, csLog, lockFile, sockVars, dgVars>>

\* The process ends after bootstrap has returned.
Exit(p) ==
    /\ pc[p] \in {"ret", "err"}
    /\ pc' = [pc EXCEPT ![p] = "exited"]
    /\ procs' = procs \ {p}
    /\ udpHolder' = Released(p)
    /\ UNCHANGED <<pidFile, csLog, lockFile, sockVars, dgVars>>

\* A daemon is killed from outside at any point of launch.
Kill(p) ==
    /\ pc[p] \in {"launch", "bind", "serve"}
    /\ pc' = [pc EXCEPT ![p] = "killed"]
    /\ procs' = procs \ {p}
    /\ udpHolder' = Released(p)
    /\ UNCHANGED <<pidFile, csLog, lockFile, sockVars, dgVars>>

NextSup ==
    \E p \in LibProcs :
        \/ BootCheck(p)
        \/ Spawn(p)
        \/ SpawnFails(p)
        \/ ExeUnknown(p)
        \/ WriteLock(p)
        \/ LaunchWritePid(p)
        \/ LaunchBind(p)
        \/ LaunchShutdown(p)
        \/ Exit(p)
        \/ Kill(p)

SpecSup == InitSup /\ [][NextSup]_vars

\* Process p takes no further step on the PID file, the process table or the
\* address: it has returned or ended, or it is a child that is never spawned.
Settled(p) ==
    \/ pc[p] \in {"lock", "ret", "err", "exited", "killed", "panicked"}
    \/ pc[p] = "off" /\ pc[p - NSup] \in {"ret", "err", "exited"}

\* SpecSupSeq: the supervisor is invoked by hand, one invocation after the
\* other: a supervisor is started once the supervisors before it have
\* returned and the daemons they spawned are serving or have ended.
InTurn(p) ==
    \A q \in Sups :
        q < p => /\ Settled(q)
                 /\ pc[Child(q)] = "serve" \/ Settled(Child(q))

BootInTurn(p) ==
    /\ Arg(p) = "none" => InTurn(p)
    /\ BootCheck(p)

NextSupSeq ==
    \E p \in LibProcs :
        \/ BootInTurn(p)
        \/ Spawn(p)
        \/ SpawnFails(p)
        \/ ExeUnknown(p)
        \/ WriteLock(p)
        \/ LaunchWritePid(p)
        \/ LaunchBind(p)
        \/ LaunchShutdown(p)
        \/ Exit(p)
        \/ Kill(p)

\* A process that runs keeps running: the steps of bootstrap and launch that
\* wait for nothing are taken. spawn() and current_exe() may fail, and a
\* daemon serves until a Shutdown arrives or it is killed.
SupFair ==
    \A p \in LibProcs :
        /\ WF_vars(BootInTurn(p))
        /\ WF_vars(Spawn(p))
        /\ WF_vars(LaunchWritePid(p))
        /\ WF_vars(LaunchBind(p))

SpecSupSeq == InitSup /\ [][NextSupSeq]_vars /\ SupFair

---------------------------------------------------------------------------
(* Claims on the start race of lib.rs, checked under SpecSup.              *)

\* C4: once a daemon that lost the race for the address has failed its bind
\* and ended, the PID file still lists the PID of the daemon that is bound,
\* so check_started returns true.
C4_PidFileKeepsWinner ==
    \A w \in LibProcs, l \in LibProcs :
        (pc[w] = "serve" /\ udpHolder = w /\ pc[l] = "panicked") =>
            /\ Listings(pidFile, w) > 0
            /\ CheckStartedRet(pidFile, procs)

\* Supervisor s is invoked next after a daemon was killed: the killed
\* daemon's PID is in the PID file and nothing else is under way.
AfterKill(s) ==
    /\ pc[s] = "boot"
    /\ \E k \in LibProcs : pc[k] = "killed" /\ Listings(pidFile, k) > 0
    /\ \A p \in LibProcs \ {s, Child(s)} : Settled(p)

\* The daemon spawned by s is bound and the PID file lists live PIDs only.
Collected(s) ==
    /\ pc[Child(s)] = "serve"
    /\ udpHolder = Child(s)
    /\ pidFile.kind = "ok"
    /\ OnlyLiveListed(pidFile, procs)

\* The start did not take place (spawn() or current_exe() failed), or the new
\* daemon was killed in its turn.
StartFailed(s) ==
    \/ pc[s] \in {"ret", "err", "exited"} /\ pc[Child(s)] = "off"
    \/ pc[Child(s)] = "killed"

C11_CheckStep ==
    \A s \in Sups :
        (AfterKill(s) /\ pc'[s] # pc[s]) =>
            /\ csLog'.ret = FALSE
            /\ pc'[s] = "spawn"

\* C11: a supervisor invoked after the daemon was killed (its PID still in
\* the PID file) does not take the daemon for running and goes on to spawn
\* one; unless the start fails or the new daemon is killed too, the new
\* daemon comes to be bound to the address with the PID file listing no dead
\* process.
C11_KilledDaemonCollected ==
    /\ [][C11_CheckStep]_vars
    /\ \A s \in Sups : AfterKill(s) ~> (Collected(s) \/ StartFailed(s))

\* A daemon was killed with its PID in the file, and a daemon started after
\* that (its own check_started saw the dead entry) is bound, the file clean.
C11_Witness ==
    \E s \in Sups, k \in LibProcs :
        /\ pc[k] = "killed"
        /\ Collected(s)
        /\ csLog.called /\ csLog.ret = FALSE
        /\ Listings(csLog.before, k) > 0
        /\ k \notin csLog.table
        /\ Listings(pidFile, k) = 0

\* Process p's bootstrap has just run check_started.
Checked(p) == pc[p] = "boot" /\ pc'[p] # "boot"

\* C13: bootstrap returns Err when check_started finds the companion running
\* and does not return Err from the check when it is not running (it goes on
\* to start it and returns Ok with the lockfile path).
C13_Step ==
    \A p \in LibProcs :
        Checked(p) => (pc'[p] = "err") = csLog'.ret

C13_ErrWhenRunning == [][C13_Step]_vars

\* What a process with no argument may do once its check found no daemon.
SpawnedThenLock(p) ==
    /\ pc'[p] = "lock"
    /\ pc[Child(p)] = "off" /\ pc'[Child(p)] = "boot"
    /\ procs' = procs \cup {Child(p)}
    /\ lockFile' = lockFile

SpawnFailedNoLock(p) ==
    /\ pc'[p] = "err"
    /\ procs' = procs
    /\ lockFile' = lockFile

NoExeNoLock(p) ==
    /\ pc'[p] = "ret"
    /\ procs' = procs
    /\ lockFile' = lockFile

\* The lockfile is written by a supervisor that has spawned, with the path of
\* the executable.
LockAfterSpawn ==
    lockFile' # lockFile =>
        /\ lockFile' = ExePath
        /\ \E p \in Sups : pc[p] = "lock" /\ pc'[p] = "ret" /\ pc[Child(p)] # "off"

C15_Sent(p) == pc[p] = "spawn" /\ pc'[p] # "spawn"

\* C15 as stated: a process without arguments whose check found no daemon
\* spawns the executable with -d and only then writes the lockfile; or the
\* spawn fails, bootstrap returns the error and writes no lockfile.
C15_SpawnThenLock ==
    [][/\ \A p \in Sups :
              C15_Sent(p) => SpawnedThenLock(p) \/ SpawnFailedNoLock(p)
       /\ LockAfterSpawn]_vars

\* C15 amended: as stated, and when current_exe() fails nothing is spawned,
\* the lockfile is not written and bootstrap returns Ok.
C15_SpawnThenLockOrNoExe ==
    [][/\ \A p \in Sups :
              C15_Sent(p) =>
                  SpawnedThenLock(p) \/ SpawnFailedNoLock(p) \/ NoExeNoLock(p)
       /\ LockAfterSpawn]_vars

\* One supervisor's spawn failed while the lockfile was unwritten; another
\* spawned its daemon and wrote the lockfile after that.
C15_Witness ==
    \E p \in Sups, q \in Sups :
        /\ pc[p] = "err" /\ pc[Child(p)] = "off"
        /\ pc[q] = "ret" /\ pc[Child(q)] # "off"
        /\ lockFile = ExePath

C17_Step ==
    \A p \in LibProcs :
        /\ (pc[p] = "launch" /\ pc'[p] = "bind") =>
                /\ pidFile' = FileOf(<<ToString(p)>>)
                /\ Listings(pidFile', p) = 1
                /\ \A q \in LibProcs \ {p} : Listings(pidFile', q) = 0
                /\ udpHolder' # p
        /\ (udpHolder' = p /\ udpHolder # p) => pc[p] = "bind"

\* C17: the step of launch that leads to the bind replaces the content of the
\* PID file by one entry, the PID of the launching process, whatever the
\* file listed before; the socket is bound only after that step.
C17_PidFileReplaced == [][C17_Step]_vars

\* A launch has replaced the entry another daemon had written.
C17_Witness ==
    \E p \in LibProcs, q \in LibProcs :
        /\ p # q
        /\ pc[p] = "bind"
        /\ pc[q] \in {"bind", "serve", "panicked", "killed"}
        /\ pidFile = FileOf(<<ToString(p)>>)

C18_Step ==
    \A p \in LibProcs :
        /\ (Checked(p) /\ (csLog'.ret \/ Arg(p) \notin {"none", "-d"})) =>
                /\ pc' = [pc EXCEPT ![p] = "ret"]
                /\ procs' = procs
                /\ lockFile' = lockFile
                /\ udpHolder' = udpHolder
                /\ \A q \in procs : Listings(pidFile', q) = Listings(pidFile, q)
                /\ ~csLog'.ret => pidFile' = pidFile
        /\ (pc[p] = "ret" /\ pc'[p] # "ret") =>
                /\ pc'[p] = "exited"
                /\ procs' = procs \ {p}
                /\ pidFile' = pidFile
                /\ lockFile' = lockFile

\* C18: when check_started reports a live daemon, or reports none to a process
\* whose first argument is present and is not -d, bootstrap returns at once:
\* no process is spawned, launch is not entered, the lockfile and the PID
\* file entries of live processes stay as they were.
C18_NothingChanged == [][C18_Step]_vars

\* A supervisor returned without spawning because a daemon was live, and the
\* process with the other argument returned as well.
C18_Witness ==
    /\ csLog.called /\ csLog.ret
    /\ pc[Guest] \in {"ret", "exited"}
    /\ \E s \in Sups : pc[s] = "ret" /\ pc[Child(s)] = "off"

---------------------------------------------------------------------------
(* SpecSock: the stream-socket daemon of main.rs and clients as sender.rs. *)
(* Several daemon processes may be started; each runs main.                *)

Daemons == 1..NDaemon

Clients == 1..NClient

Task(op, key, data, values) ==
    [op |-> op, key |-> key, data |-> data, values |-> values]

\* The Task variants main.rs matches on (lines 59-75).
StreamTasks ==
    { Task("Get", "key", "", <<>>),
      Task("Set", "key", "data", <<>>),
      Task("Sum", "", "", <<23, 42>>),
      Task("Shutdown", "", "", <<>>) }

Response(tag, str) == [tag |-> tag, str |-> str]

NoResponse == Response("none", <<>>)

\* The reply channel made for one task: open (its Sender travels with the
\* task), dropped (the Sender was dropped unused), ready (a Response is in
\* it), taken (the client received it); nochan for a Shutdown task.
Chan(st, resp) == [st |-> st, resp |-> resp]

InitSock ==
    /\ CsIdle
    /\ SupIdle
    /\ DgIdle
    /\ dpc = [d \in Daemons |-> "init"]
    /\ sockFile = 0
    /\ removed = [d \in Daemons |-> "unset"]
    /\ cur = [d \in Daemons |-> 0]
    /\ backlog = [d \in Daemons |-> <<>>]
    /\ cpc = [c \in Clients |-> "start"]
    /\ conn = [c \in Clients |-> 0]
    /\ inq = [c \in Clients |-> <<>>]
    /\ sent = [c \in Clients |-> <<>>]
    /\ served = [c \in Clients |-> <<>>]
    /\ replies = [c \in Clients |-> <<>>]

\* The daemon's listener is open from its bind until the process ends.
Listening(d) == dpc[d] \in {"accept", "recv"}

\* The client's end of its connection and its reply receivers are open.
ClientOpen(c) == cpc[c] = "run"

\* The typed channel (Sender, Receiver, channel) is not among the sources;
\* its operations are taken from its specification.
\* Sender::connect succeeds when a listener is open at the path entry.
ConnectOk(entry) == entry # 0 /\ Listening(entry)

\* Sender<Task>::send fails once the daemon's end of the connection closed.
TaskSendOk(c) == Listening(conn[c])

\* Sender<Response>::send fails once the client's Receiver is closed.
ReplySendOk(c) == ClientOpen(c)

\* Receiver<Task>::recv fails when the peer has closed the connection and
\* every task sent on it has been received.
RecvFails(c) == inq[c] = <<>> /\ ~ClientOpen(c)

\* What the end of daemon d does to the connections made to it: tasks not
\* yet received are discarded and the Senders travelling with them closed.
DropOpen(q) ==
    [i \in 1..Len(q) |-> IF q[i].st = "open" THEN Chan("dropped", NoResponse)
                         ELSE q[i]]

EndDaemon(d) ==
    /\ backlog' = [backlog EXCEPT ![d] = <<>>]
    /\ inq' = [c \in Clients |-> IF conn[c] = d THEN <<>> ELSE inq[c]]

RepliesAtEnd(d, rs) ==
    [c \in Clients |-> IF conn[c] = d THEN DropOpen(rs[c]) ELSE rs[c]]

\* What a path entry is: none, the socket of a listener that is open (live),
\* or one left by a daemon that has ended (stale).
EntryKind(entry) ==
    IF entry = 0 THEN "none"
    ELSE IF Listening(entry) THEN "live"
    ELSE "stale"

\* main.rs line 48: fs::remove_file(&path).ok(): whatever entry the path
\* had, it has none afterwards.
UnlinkedKeepsEntry(entry) == entry

Unlinked(entry) == 0

RemoveFile(d) ==
    /\ dpc[d] = "init"
    /\ sockFile' = Unlinked(sockFile)
    /\ removed' = [removed EXCEPT ![d] = EntryKind(sockFile)]
    /\ dpc' = [dpc EXCEPT ![d] = "bind"]
    /\ UNCHANGED <<csVars, supVars, dgVars, cur, backlog, cpc, conn, inq, sent,
                   served, replies>>

\* main.rs line 49: UnixListener::bind(&path).unwrap(); bind fails when the
\* path has an entry, whatever made it.
PathFree(entry) == entry = 0

Bind(d) ==
    /\ dpc[d] = "bind"
    /\ IF PathFree(sockFile)
       THEN /\ sockFile' = d
            /\ dpc' = [dpc EXCEPT ![d] = "accept"]
       ELSE /\ sockFile' = sockFile
            /\ dpc' = [dpc EXCEPT ![d] = "bind_failed"]
    /\ UNCHANGED <<csVars, supVars, dgVars, removed, cur, backlog, cpc, conn, inq, sent,
                   served, replies>>

\* main.rs lines 51-53: accept one connection and wrap it as the Receiver.
Accept(d) ==
    /\ dpc[d] = "accept"
    /\ backlog[d] # <<>>
    /\ cur' = [cur EXCEPT ![d] = Head(backlog[d])]
    /\ backlog' = [backlog EXCEPT ![d] = Tail(backlog[d])]
    /\ dpc' = [dpc EXCEPT ![d] = "recv"]
    /\ UNCHANGED <<csVars, supVars, dgVars, removed, sockFile, cpc, conn, inq, sent, served,
                   replies>>

\* The inner loop (lines 56-76) reads the accepted connection only.
ServingAnyConn(d, c) == dpc[d] = "recv" /\ conn[c] = d

Serving(d, c) == dpc[d] = "recv" /\ cur[d] = c

\* receiver.recv() yields the tasks of a connection in the order sent.
NextTask(q) == Head(q)

RestTasks(q) == Tail(q)

\* The reply channel of the task the daemon has just received from c.
ChanIndex(c) == Len(served[c]) + 1

Received(d, c, op) ==
    /\ Serving(d, c)
    /\ inq[c] # <<>>
    /\ NextTask(inq[c]).op = op
    /\ served' = [served EXCEPT ![c] = Append(@, NextTask(inq[c]))]

\* Lines 60-65: Get and Set print; the task's Sender is dropped unused.
ServeGetSet(d, c) ==
    /\ \/ Received(d, c, "Get")
       \/ Received(d, c, "Set")
    /\ inq' = [inq EXCEPT ![c] = RestTasks(@)]
    /\ replies' = [replies EXCEPT ![c][ChanIndex(c)] = Chan("dropped", NoResponse)]
    /\ UNCHANGED <<csVars, supVars, dgVars, removed, dpc, sockFile, cur, backlog, cpc, conn, sent>>

\* Lines 66-70: tx.send(Response::NotFound).unwrap(); the send fails, and
\* the daemon panics, when the client's Receiver is closed.
SumReply(values) == Response("NotFound", <<>>)

ServeSum(d, c) ==
    /\ Received(d, c, "Sum")
    /\ IF ReplySendOk(c)
       THEN /\ inq' = [inq EXCEPT ![c] = RestTasks(@)]
            /\ replies' = [replies EXCEPT ![c][ChanIndex(c)] =
                              Chan("ready", SumReply(NextTask(inq[c]).values))]
            /\ UNCHANGED <<dpc, backlog>>
       ELSE /\ dpc' = [dpc EXCEPT ![d] = "send_failed"]
            /\ EndDaemon(d)
            /\ replies' = RepliesAtEnd(d,
                   [replies EXCEPT ![c][ChanIndex(c)] = Chan("dropped", NoResponse)])
    /\ UNCHANGED <<csVars, supVars, dgVars, removed, sockFile, cur, cpc, conn, sent>>

\* Lines 71-74: Shutdown breaks the outer loop; main returns.  Nothing
\* removes the socket path file.
ServeShutdown(d, c) ==
    /\ Received(d, c, "Shutdown")
    /\ dpc' = [dpc EXCEPT ![d] = "done"]
    /\ EndDaemon(d)
    /\ replies' = RepliesAtEnd(d, replies)
    /\ UNCHANGED <<csVars, supVars, dgVars, removed, sockFile, cur, cpc, conn, sent>>

\* Line 57: receiver.recv().unwrap() on a connection the client has closed
\* and that holds no more tasks: recv fails and the daemon panics.
RecvClosed(d, c) ==
    /\ Serving(d, c)
    /\ RecvFails(c)
    /\ dpc' = [dpc EXCEPT ![d] = "recv_failed"]
    /\ EndDaemon(d)
    /\ replies' = RepliesAtEnd(d, replies)
    /\ UNCHANGED <<csVars, supVars, dgVars, removed, sockFile, cur, cpc, conn, sent, served>>

\* The daemon process is killed from outside.
KillDaemon(d) ==
    /\ dpc[d] \in {"bind", "accept", "recv"}
    /\ dpc' = [dpc EXCEPT ![d] = "killed"]
    /\ EndDaemon(d)
    /\ replies' = RepliesAtEnd(d, replies)
    /\ UNCHANGED <<csVars, supVars, dgVars, removed, sockFile, cur, cpc, conn, sent, served>>

\* sender.rs line 11: path.exists(), else the panic of line 42 ends the client.
ClientExists(c) ==
    /\ cpc[c] = "start"
    /\ cpc' = [cpc EXCEPT ![c] = IF sockFile # 0 THEN "connect" ELSE "ended"]
    /\ UNCHANGED <<csVars, supVars, dgVars, removed, dpc, sockFile, cur, backlog, conn, inq,
                   sent, served, replies>>

\* sender.rs lines 12-14: connect succeeds when the path entry belongs to a
\* listener that is open, and fails otherwise.
ClientConnect(c) ==
    /\ cpc[c] = "connect"
    /\ IF ConnectOk(sockFile)
       THEN /\ conn' = [conn EXCEPT ![c] = sockFile]
            /\ backlog' = [backlog EXCEPT ![sockFile] = Append(@, c)]
            /\ cpc' = [cpc EXCEPT ![c] = "run"]
       ELSE /\ cpc' = [cpc EXCEPT ![c] = "cleanup"]
            /\ UNCHANGED <<conn, backlog>>
    /\ UNCHANGED <<csVars, supVars, dgVars, removed, dpc, sockFile, cur, inq, sent, served,
                   replies>>

\* sender.rs lines 15-17: the path is removed and the client ends in a panic.
ClientCleanup(c) ==
    /\ cpc[c] = "cleanup"
    /\ sockFile' = 0
    /\ cpc' = [cpc EXCEPT ![c] = "ended"]
    /\ UNCHANGED <<csVars, supVars, dgVars, removed, dpc, cur, backlog, conn, inq, sent,
                   served, replies>>

RECURSIVE TotalSent(_)
\* The number of tasks clients 1..n have sent.
TotalSent(n) == IF n = 0 THEN 0 ELSE Len(sent[n]) + TotalSent(n - 1)

\* sender.rs lines 21-37: a task is sent with the Sender of a fresh reply
\* channel in it (Shutdown carries none); send(..).unwrap() panics when the
\* daemon's end is closed.
ClientSend(c, t) ==
    /\ cpc[c] = "run"
    /\ TotalSent(NClient) < MaxTasks
    /\ IF TaskSendOk(c)
       THEN /\ inq' = [inq EXCEPT ![c] = Append(@, t)]
            /\ sent' = [sent EXCEPT ![c] = Append(@, t)]
            /\ replies' = [replies EXCEPT ![c] = Append(@,
                   Chan(IF t.op = "Shutdown" THEN "nochan" ELSE "open", NoResponse))]
            /\ cpc' = cpc
       ELSE /\ cpc' = [cpc EXCEPT ![c] = "ended"]
            /\ UNCHANGED <<inq, sent, replies>>
    /\ UNCHANGED <<csVars, supVars, dgVars, removed, dpc, sockFile, cur, backlog, conn, served>>

\* The first reply channel the client has not yet received from.
Awaited(c) ==
    {i \in 1..Len(replies[c]) :
        /\ replies[c][i].st \in {"open", "dropped", "ready"}
        /\ \A j \in 1..(i - 1) : replies[c][j].st \in {"taken", "nochan"}}

\* sender.rs lines 24-38: rx.recv().unwrap() takes the reply, and panics
\* when the channel was closed without one.
ClientRecv(c) ==
    /\ cpc[c] = "run"
    /\ \E i \in Awaited(c) :
          \/ /\ replies[c][i].st = "ready"
             /\ replies' = [replies EXCEPT ![c][i].st = "taken"]
             /\ cpc' = cpc
          \/ /\ replies[c][i].st = "dropped"
             /\ replies' = replies
             /\ cpc' = [cpc EXCEPT ![c] = "ended"]
    /\ UNCHANGED <<csVars, supVars, dgVars, removed, dpc, sockFile, cur, backlog, conn, inq,
                   sent, served>>

\* sender.rs line 44: main returns; the connection is closed.
ClientDone(c) ==
    /\ cpc[c] = "run"
    /\ cpc' = [cpc EXCEPT ![c] = "ended"]
    /\ UNCHANGED <<csVars, supVars, dgVars, removed, dpc, sockFile, cur, backlog, conn, inq,
                   sent, served, replies>>

NextSock ==
    \/ \E d \in Daemons :
          \/ RemoveFile(d)
          \/ Bind(d)
          \/ Accept(d)
          \/ KillDaemon(d)
          \/ \E c \in Clients :
                \/ ServeGetSet(d, c)
                \/ ServeSum(d, c)
                \/ ServeShutdown(d, c)
                \/ RecvClosed(d, c)
    \/ \E c \in Clients :
          \/ ClientExists(c)
          \/ ClientConnect(c)
          \/ ClientCleanup(c)
          \/ \E t \in StreamTasks : ClientSend(c, t)
          \/ ClientRecv(c)
          \/ ClientDone(c)

SpecSock == InitSock /\ [][NextSock]_vars

\* SpecServe: one daemon is started, and any number of clients use it.
InitServe ==
    /\ CsIdle
    /\ SupIdle
    /\ DgIdle
    /\ dpc = [d \in Daemons |-> IF d = 1 THEN "init" ELSE "off"]
    /\ sockFile = 0
    /\ removed = [d \in Daemons |-> "unset"]
    /\ cur = [d \in Daemons |-> 0]
    /\ backlog = [d \in Daemons |-> <<>>]
    /\ cpc = [c \in Clients |-> "start"]
    /\ conn = [c \in Clients |-> 0]
    /\ inq = [c \in Clients |-> <<>>]
    /\ sent = [c \in Clients |-> <<>>]
    /\ served = [c \in Clients |-> <<>>]
    /\ replies = [c \in Clients |-> <<>>]

SpecServe == InitServe /\ [][NextSock]_vars

\* SpecStart: the daemons start, end and are connected to; no task is sent.
NextStart ==
    \/ \E d \in Daemons :
          \/ RemoveFile(d)
          \/ Bind(d)
          \/ Accept(d)
          \/ KillDaemon(d)
          \/ \E c \in Clients : RecvClosed(d, c)
    \/ \E c \in Clients :
          \/ ClientExists(c)
          \/ ClientConnect(c)
          \/ ClientCleanup(c)
          \/ ClientDone(c)

SpecStart == InitSock /\ [][NextStart]_vars

---------------------------------------------------------------------------
(* SpecDg: the serve loop of launch (lib.rs 167-214): the daemon is bound  *)
(* to companion_addr() and reads one datagram after the other.             *)

Srcs == 1..NSrc

\* The Task variants of lib.rs 81-90.
DgTask(op, key, data) == [op |-> op, key |-> key, data |-> data]

DgTasks ==
    { DgTask("Get", "a", ""),
      DgTask("Set", "a", "x"),
      DgTask("Set", "a", "y"),
      DgTask("Set", "b", "x"),
      DgTask("List", "", ""),
      DgTask("Sum", "", ""),
      DgTask("Shutdown", "", "") }

\* A datagram body: the bincode bytes of a Task, or bytes that are none.
Bytes(task) == [kind |-> "task", task |-> task]

Junk == [kind |-> "junk", task |-> DgTask("none", "", "")]

Bodies == {Bytes(t) : t \in DgTasks} \cup {Junk}

DecodeErr == DgTask("error", "", "")

\* Line 174: bincode::deserialize(&buf).
Deserialize(body) == IF body.kind = "task" THEN body.task ELSE DecodeErr

Datagram(src, body) == [src |-> src, body |-> body]

\* Response (lib.rs 61-66): String carries the data, List the keys.
DgResponse(tag, data, keys) == [tag |-> tag, data |-> data, keys |-> keys]

\* HashMap::keys, HashMap::get and HashMap::insert on the set of pairs.
Keys(store) == {kv[1] : kv \in store}

StoreGet(store, key) ==
    IF key \in Keys(store)
    THEN DgResponse("String", (CHOOSE kv \in store : kv[1] = key)[2], {})
    ELSE DgResponse("NotFound", "", {})

InsertedKeepsOld(store, key, data) ==
    IF key \in Keys(store) THEN store ELSE store \cup {<<key, data>>}

Inserted(store, key, data) ==
    {kv \in store : kv[1] # key} \cup {<<key, data>>}

\* recv_from returns the datagram that arrived first.
NextDatagram(q) == Head(q)

RestDatagrams(q) == Tail(q)

\* send_to(&buf, src): the address the reply to datagram d goes to.
ReplyDstFixed(d) == 1

ReplyDst(d) == d.src

InitDg ==
    /\ CsIdle
    /\ SupIdle
    /\ SockIdle
    /\ upc = "recv"
    /\ storage = {}
    /\ netq = <<>>
    /\ ucur = NoDatagram
    /\ ulog = <<>>

\* The socket is bound while the daemon runs.
DgBound == upc \in {"recv", "handle"}

\* A source sends one datagram to the daemon's address.
DgSend(c, body) ==
    /\ DgBound
    /\ Len(ulog) + Len(netq) < MaxDatagrams
    /\ netq' = Append(netq, Datagram(c, body))
    /\ UNCHANGED <<csVars, supVars, sockVars, upc, storage, ucur, ulog>>

\* Line 171: recv_from.
DgRecv ==
    /\ upc = "recv"
    /\ netq # <<>>
    /\ ucur' = NextDatagram(netq)
    /\ netq' = RestDatagrams(netq)
    /\ ulog' = Append(ulog, [src |-> NextDatagram(netq).src,
                             body |-> NextDatagram(netq).body,
                             replies |-> <<>>])
    /\ upc' = "handle"
    /\ UNCHANGED <<csVars, supVars, sockVars, storage>>

\* The datagram in hand decodes to a task with this op.
Handling(op) == upc = "handle" /\ Deserialize(ucur.body).op = op

\* send_to: the reply is recorded with the datagram that is being handled.
Replied(log, resp) ==
    [log EXCEPT ![Len(log)].replies =
        Append(@, [dst |-> ReplyDst(ucur), resp |-> resp])]

\* Line 174: the unwrap of a failed deserialize panics.
DgUndecodable ==
    /\ Handling("error")
    /\ upc' = "panicked"
    /\ UNCHANGED <<csVars, supVars, sockVars, storage, netq, ucur, ulog>>

\* Lines 177-190.
DgGet ==
    /\ Handling("Get")
    /\ ulog' = Replied(ulog, StoreGet(storage, Deserialize(ucur.body).key))
    /\ upc' = "recv"
    /\ UNCHANGED <<csVars, supVars, sockVars, storage, netq, ucur>>

\* Lines 191-197.
DgSet ==
    /\ Handling("Set")
    /\ storage' = Inserted(storage, Deserialize(ucur.body).key,
                           Deserialize(ucur.body).data)
    /\ ulog' = Replied(ulog, DgResponse("Ok", "", {}))
    /\ upc' = "recv"
    /\ UNCHANGED <<csVars, supVars, sockVars, netq, ucur>>

\* Lines 198-202.
DgList ==
    /\ Handling("List")
    /\ ulog' = Replied(ulog, DgResponse("List", "", Keys(storage)))
    /\ upc' = "recv"
    /\ UNCHANGED <<csVars, supVars, sockVars, storage, netq, ucur>>

\* Lines 203-207: nothing is sent.
DgSum ==
    /\ Handling("Sum")
    /\ upc' = "recv"
    /\ UNCHANGED <<csVars, supVars, sockVars, storage, netq, ucur, ulog>>

\* Lines 208-212: break 'outer; launch returns.
DgShutdown ==
    /\ Handling("Shutdown")
    /\ upc' = "ended"
    /\ UNCHANGED <<csVars, supVars, sockVars, storage, netq, ucur, ulog>>

NextDg ==
    \/ \E c \in Srcs, body \in Bodies : DgSend(c, body)
    \/ DgRecv
    \/ DgUndecodable
    \/ DgGet
    \/ DgSet
    \/ DgList
    \/ DgSum
    \/ DgShutdown

SpecDg == InitDg /\ [][NextDg]_vars

---------------------------------------------------------------------------
(* Claims on the datagram daemon, checked under SpecDg.                    *)

\* The op of the task that the i-th datagram read decodes to.
OpOf(e) == Deserialize(e.body).op

KeyOf(e) == Deserialize(e.body).key

DataOf(e) == Deserialize(e.body).data

ShutdownRead == \E i \in 1..Len(ulog) : OpOf(ulog[i]) = "Shutdown"

\* C12: as long as no Shutdown task was received, whatever else was (other
\* tasks, datagrams that decode to no task), the daemon is running and
\* serving; once a Shutdown has been handled the serve loop has ended.
C12_OnlyShutdownEnds ==
    /\ ~ShutdownRead => DgBound
    /\ (ShutdownRead /\ upc # "handle") => upc = "ended"

WantsReply(e) == OpOf(e) \in {"Get", "Set", "List"}

C14_ToSource ==
    \A i \in 1..Len(ulog) :
        /\ Len(ulog[i].replies) <= 1
        /\ \A j \in 1..Len(ulog[i].replies) :
              ulog[i].replies[j].dst = ulog[i].src

C14_ReadStep ==
    /\ \A i \in 1..Len(ulog) :
          i < Len(ulog) => (i <= Len(ulog') /\ ulog'[i] = ulog[i])
    /\ Len(ulog') # Len(ulog) =>
          /\ netq # <<>>
          /\ ulog' = Append(ulog, [src |-> Head(netq).src,
                                   body |-> Head(netq).body,
                                   replies |-> <<>>])
          /\ netq' = Tail(netq)
          /\ \A i \in 1..Len(ulog) :
                WantsReply(ulog[i]) => Len(ulog[i].replies) = 1

\* C14: every reply goes to the source address of the datagram whose task
\* produced it; datagrams are read in the order they arrived, and when one
\* is read the reply to every request read before it has been sent.
C14_OneAtATime == [](C14_ToSource) /\ [][C14_ReadStep]_vars

\* Requests of two sources interleaved, each answered.
C14_Witness ==
    /\ Len(ulog) = 3
    /\ ulog[1].src = ulog[3].src
    /\ ulog[2].src # ulog[1].src
    /\ \A i \in 1..3 : WantsReply(ulog[i]) /\ Len(ulog[i].replies) = 1

Max(S) == CHOOSE x \in S : \A y \in S : y <= x

\* The Set tasks for key k among the datagrams read before the i-th.
SetsBefore(i, k) ==
    {j \in 1..(i - 1) : OpOf(ulog[j]) = "Set" /\ KeyOf(ulog[j]) = k}

ExpectedGet(i) ==
    LET sets == SetsBefore(i, KeyOf(ulog[i]))
    IN  IF sets = {} THEN DgResponse("NotFound", "", {})
        ELSE DgResponse("String", DataOf(ulog[Max(sets)]), {})

ExpectedList(i) ==
    DgResponse("List", "",
               {KeyOf(ulog[j]) : j \in {n \in 1..(i - 1) : OpOf(ulog[n]) = "Set"}})

C16_Answers ==
    \A i \in 1..Len(ulog) :
        Len(ulog[i].replies) = 1 =>
            LET resp == ulog[i].replies[1].resp
            IN  /\ OpOf(ulog[i]) = "Get" => resp = ExpectedGet(i)
                /\ OpOf(ulog[i]) = "List" => resp = ExpectedList(i)

C16_StoreStep ==
    /\ storage' # storage => Handling("Set")
    /\ Handling("Set") /\ upc' # upc =>
          /\ <<KeyOf(ucur), DataOf(ucur)>> \in storage'
          /\ \A kv \in storage' : kv[1] = KeyOf(ucur) => kv[2] = DataOf(ucur)
          /\ {kv \in storage' : kv[1] # KeyOf(ucur)}
                = {kv \in storage : kv[1] # KeyOf(ucur)}

\* C16: Get(k) is answered with String(v) for the most recent Set(k, v)
\* handled before it and with NotFound when there was none; List with the set
\* of the keys that were Set; only Set changes the store, and only at its key.
C16_StoreIsMap == [](C16_Answers) /\ [][C16_StoreStep]_vars

\* A key was set twice and then read: the answer carries the second value.
C16_Witness ==
    /\ Len(ulog) = 3
    /\ OpOf(ulog[1]) = "Set" /\ OpOf(ulog[2]) = "Set" /\ OpOf(ulog[3]) = "Get"
    /\ KeyOf(ulog[1]) = KeyOf(ulog[3]) /\ KeyOf(ulog[2]) = KeyOf(ulog[3])
    /\ DataOf(ulog[1]) # DataOf(ulog[2])
    /\ Len(ulog[3].replies) = 1
    /\ ulog[3].replies[1].resp = DgResponse("String", DataOf(ulog[2]), {})

---------------------------------------------------------------------------
(* Claims on the stream daemon, checked under SpecSock.                    *)

\* The reply channels of client c on which a Response was sent.
Answered(c) ==
    {i \in 1..Len(replies[c]) : replies[c][i].st \in {"ready", "taken"}}

\* C1: for every Get, Set or Sum task the daemon has taken from its input,
\* it has sent exactly one reply on the task's reply channel before it takes
\* the next task.
C1_OneReplyPerTask ==
    \A c \in Clients : \A i \in 1..Len(served[c]) :
        served[c][i].op # "Shutdown" => i \in Answered(c)

RECURSIVE SumOf(_)
SumOf(values) ==
    IF values = <<>> THEN 0 ELSE Head(values) + SumOf(Tail(values))

\* C2: a Sum(values) request is answered with a Response carrying the sum of
\* the values, delivered on the reply channel whose Receiver the requester
\* holds (Sum([23, 42]) is answered with 65).
C2_SumAnswered ==
    \A c \in Clients : \A i \in 1..Len(served[c]) :
        (served[c][i].op = "Sum" /\ ClientOpen(c)) =>
            /\ i \in Answered(c)
            /\ replies[c][i].resp = Response("String", ToString(SumOf(served[c][i].values)))

\* C3: however the daemon starts interleave, at most one live listener is
\* bound to the socket path (a second daemon's bind fails) and a live
\* listener stays reachable at the path.
C3_OneBoundDaemon ==
    /\ Cardinality({d \in Daemons : Listening(d)}) <= 1
    /\ \A d \in Daemons : Listening(d) => sockFile = d

\* C5: a client connection that closes without a Shutdown task does not end
\* the daemon: no daemon ends on the failed recv of a closed connection.
C5_CloseNotFatal ==
    \A d \in Daemons : dpc[d] # "recv_failed"

\* C6: after the daemon has received Task::Shutdown and ended, the socket
\* path file it bound no longer exists.
C6_SocketGoneAfterShutdown ==
    \A d \in Daemons : dpc[d] = "done" => sockFile # d

\* C7: while daemon d serves the open connection of client c1, no task of
\* another client connected to d is read and none is answered; and the
\* tasks of a connection are served in the order they were sent.
C7_ServedInOrder ==
    \A c \in Clients :
        /\ Len(served[c]) <= Len(sent[c])
        /\ served[c] = SubSeq(sent[c], 1, Len(served[c]))

C7_OthersWait ==
    \A d \in Daemons, c1 \in Clients :
        (dpc[d] = "recv" /\ cur[d] = c1 /\ cpc[c1] = "run") =>
            \A c2 \in Clients \ {c1} :
                conn[c2] = d =>
                    /\ served'[c2] = served[c2]
                    /\ Answered(c2)' = Answered(c2)

C7_Exclusive == [](C7_ServedInOrder) /\ [][C7_OthersWait]_vars

\* Daemon d serves c1, has taken two different tasks from it and answered
\* one, while c2 is connected to d, has sent a task and waits unaccepted.
C7_Witness ==
    \E d \in Daemons, c1 \in Clients, c2 \in Clients :
        /\ c1 # c2
        /\ dpc[d] = "recv" /\ cur[d] = c1 /\ cpc[c1] = "run"
        /\ Len(served[c1]) = 2
        /\ served[c1][1] # served[c1][2]
        /\ Answered(c1) # {}
        /\ conn[c2] = d /\ cpc[c2] = "run"
        /\ sent[c2] # <<>>
        /\ served[c2] = <<>>

\* C10: the daemon unlinks the path entry before it binds, so its bind
\* fails only when a live listener holds the path.
C10_BindFailsOnlyOnLiveListener ==
    [][\A d \in Daemons :
          (dpc[d] = "bind" /\ dpc'[d] = "bind_failed") =>
              (sockFile # 0 /\ Listening(sockFile))]_vars


\* C10 amended: the daemon's unlink leaves the path without an entry,
\* whatever entry (stale or not) it had; between a daemon's unlink and its
\* bind only another daemon's successful bind gives the path an entry; the
\* bind succeeds when the path has no entry and fails only on an entry that
\* another daemon bound after the unlink, live or dead by then; and a client
\* is connected only when a live listener holds the path, never on a stale
\* entry.
C10_Step ==
    /\ \A d \in Daemons :
          /\ (dpc[d] = "init" /\ dpc'[d] = "bind") => sockFile' = 0
          /\ (dpc[d] = "bind" /\ dpc'[d] = "bind" /\ sockFile = 0 /\ sockFile' # 0) =>
                \E e \in Daemons \ {d} :
                    dpc[e] = "bind" /\ dpc'[e] = "accept" /\ sockFile' = e
          /\ (dpc[d] = "bind" /\ dpc'[d] = "accept") => (sockFile = 0 /\ sockFile' = d)
          /\ (dpc[d] = "bind" /\ dpc'[d] = "bind_failed") =>
                /\ sockFile # 0 /\ sockFile # d
                /\ dpc[sockFile] \notin {"init", "bind", "bind_failed"}
    /\ \A c \in Clients :
          (cpc[c] = "connect" /\ cpc'[c] = "run") =>
              (sockFile # 0 /\ Listening(sockFile) /\ conn'[c] = sockFile)

C10_UnlinkThenBind == [][C10_Step]_vars

\* Daemon d found the entry of a daemon that had ended at the path,
\* unlinked it, bound the path and listens at it.
C10_Witness ==
    \E d \in Daemons :
        /\ removed[d] = "stale"
        /\ Listening(d)
        /\ sockFile = d

====
